---- MODULE Spec2Model ----
(***************************************************************************)
(* Stigmergy-based cooperative transport (src/model.py, src/agents.py,     *)
(* src/run.py).  The state is the TransportModel object with its grid, its *)
(* pheromone field, its scheduler and the fields of every agent.  One      *)
(* action is one agent's step() inside schedule.step(); one more action is *)
(* the remainder of TransportModel.step() (evaporation, data collection,   *)
(* step counter, termination test).  The driver is the loop of run.py:     *)
(* while model.running: model.step().                                      *)
(*                                                                         *)
(* Real numbers (pheromone values) are fixed-point integers: Unit units    *)
(* are 1.0.  Every value the bounded runs produce is a multiple of the     *)
(* unit, so the arithmetic is exact, as it is in binary floating point.    *)
(***************************************************************************)
EXTENDS Integers, FiniteSets, Sequences, TLC

VARIABLES
    width, height,          \* TransportModel.width / .height
    num_agents,             \* TransportModel.num_agents
    num_objects,            \* TransportModel.num_objects
    obstacle_fraction,      \* TransportModel.obstacle_fraction, in percent
    model_required_carriers, \* TransportModel.required_carriers
    pheromone_decay,        \* TransportModel.pheromone_decay, a fraction [num, den]
    pheromone_deposit,      \* TransportModel.pheromone_deposit, in units
    max_steps,              \* TransportModel.max_steps
    step_count,             \* TransportModel.step_count
    running,                \* TransportModel.running
    grid,                   \* MultiGrid: cell -> list of agent ids
    pheromone,              \* numpy field: cell -> value in units
    kind,                   \* schedule.agents: id -> class of the agent
    pos,                    \* Agent.pos
    required_carriers,      \* HeavyObject.required_carriers
    current_carriers,       \* HeavyObject.current_carriers
    discovered,             \* HeavyObject.discovered
    completed,              \* HeavyObject.completed
    discovery_time,         \* HeavyObject.discovery_time
    completion_time,        \* HeavyObject.completion_time
    max_carriers_used,      \* HeavyObject.max_carriers_used
    dropoff_cell,           \* HeavyObject.dropoff_cell
    latching,               \* TransportAgent.latching
    carrying_object_id,     \* TransportAgent.carrying_object_id
    last_deposit,           \* TransportAgent.last_deposit
    activations,            \* per agent: step() calls made by the current schedule.step()
    last_op,                \* history: per agent, the branch its latest step() took
    fault                   \* TRUE once an exception has escaped

config == <<width, height, num_agents, num_objects, obstacle_fraction,
            model_required_carriers, pheromone_decay, pheromone_deposit, max_steps>>
objvars == <<required_carriers, current_carriers, discovered, completed,
             discovery_time, completion_time, max_carriers_used, dropoff_cell>>
agtvars == <<latching, carrying_object_id, last_deposit>>
vars == <<config, step_count, running, grid, pheromone, kind, pos, objvars, agtvars,
          activations, last_op, fault>>

----------------------------------------------------------------------------
(* Bounds of the model *)

MaxSteps == 3          \* max_steps of the bounded runs
MaxAgents == 2         \* initial_agents ranges over 1..MaxAgents
MaxObjects == 2        \* initial_objects ranges over 1..MaxObjects
MaxRequired == 2       \* required_carriers ranges over 1..MaxRequired

(* Representation *)

None == -1             \* Python's None in the nullable integer fields
Unit == 8388608        \* fixed-point units per 1.0 (2^23)

----------------------------------------------------------------------------
(* Small helpers *)

Range(s) == {s[i] : i \in DOMAIN s}

Agents == DOMAIN kind
Obstacles == {a \in Agents : kind[a] = "Obstacle"}
HeavyObjects == {a \in Agents : kind[a] = "HeavyObject"}
TransportAgents == {a \in Agents : kind[a] = "TransportAgent"}

CellsOf(w, h) == (0 .. w - 1) \X (0 .. h - 1)

Cells == CellsOf(width, height)

MaxOf(S) == CHOOSE m \in S : \A v \in S : v <= m

Abs(n) == IF n < 0 THEN -n ELSE n

Manhattan(p, q) == Abs(p[1] - q[1]) + Abs(p[2] - q[2])

----------------------------------------------------------------------------
(* MultiGrid, as the agents use it *)

\* grid.get_cell_list_contents([c]): the agents in the cell, in arrival order
CellContents(g, c) == g[c]

\* any(isinstance(a, Obstacle) for a in contents)
HasObstacle(g, c) == \E i \in DOMAIN g[c] : kind[g[c][i]] = "Obstacle"

RemoveFrom(s, a) ==
    LET Keep(b) == b # a IN SelectSeq(s, Keep)

PlaceInto(s, a) == IF a \in Range(s) THEN s ELSE Append(s, a)

\* mutant of MoveAgent: the agent is not taken out of its old bucket
MoveAgentKeepOld(g, p, a, new_pos) == [g EXCEPT ![new_pos] = PlaceInto(@, a)]

\* grid.move_agent(agent, new_pos): out of the bucket at the agent's stored
\* position, into the bucket at new_pos
MoveAgent(g, p, a, new_pos) ==
    LET g1 == [g EXCEPT ![p[a]] = RemoveFrom(@, a)]
    IN  [g1 EXCEPT ![new_pos] = PlaceInto(@, a)]

\* for agent in latched_agents: grid.move_agent(agent, new_pos)
RECURSIVE MoveAll(_, _, _, _)
MoveAll(g, p, agents, new_pos) ==
    IF agents = <<>> THEN g
    ELSE MoveAll(MoveAgent(g, p, Head(agents), new_pos), p, Tail(agents), new_pos)

\* grid.get_neighborhood(pos, moore=True, include_center=False), torus=False
Neighborhood(c) ==
    {n \in ((c[1] - 1) .. (c[1] + 1)) \X ((c[2] - 1) .. (c[2] + 1)) :
        n # c /\ 0 <= n[1] /\ n[1] < width /\ 0 <= n[2] /\ n[2] < height}

----------------------------------------------------------------------------
(* RandomActivation: every agent of the shuffled list is stepped once *)

\* mutant of Schedulable: an agent stays in the list after its first step
SchedulableTwice(a) == activations[a] <= 1

Schedulable(a) == activations[a] = 0

Activate(a) == activations' = [activations EXCEPT ![a] = @ + 1]

\* history only: agent a's step took branch op, about heavy object obj (or None)
Record(a, op, obj) == last_op' = [last_op EXCEPT ![a] = [op |-> op, obj |-> obj]]

----------------------------------------------------------------------------
(* Obstacle.step *)

ObstacleStep(a) ==
    /\ running /\ ~fault
    /\ kind[a] = "Obstacle"
    /\ Schedulable(a)
    /\ Activate(a)
    /\ Record(a, "pass", None)
    /\ UNCHANGED <<config, step_count, running, grid, pheromone, kind, pos,
                   objvars, agtvars, fault>>

----------------------------------------------------------------------------
(* HeavyObject.step *)

\* the latched agents that are still on the object's cell
LatchedAgents(o) ==
    LET IsLatched(a) == kind[a] = "TransportAgent" /\ a \in current_carriers[o]
    IN  SelectSeq(CellContents(grid, pos[o]), IsLatched)

\* mutant of StampDiscovery: the stamp is never taken
StampDiscoveryNever(o) == discovery_time[o]

\* lines 40-42: lazy stamp of the discovery time
StampDiscovery(o) ==
    IF discovered[o] /\ discovery_time[o] = None
    THEN step_count
    ELSE discovery_time[o]

\* mutant of EnoughCarriers: any carrier at all lifts the object
EnoughCarriersAny(o, n) == n >= 1

\* mutant of EnoughCarriers: off by one
EnoughCarriersOffByOne(o, n) == ~(n < required_carriers[o] - 1)

\* line 56, negated: enough carriers to lift
EnoughCarriers(o, n) == ~(n < required_carriers[o])

\* lines 60-72: single-axis moves toward the dropoff cell
PossibleMoves(o) ==
    LET x == pos[o][1]
        y == pos[o][2]
        dx == dropoff_cell[o][1] - x
        dy == dropoff_cell[o][2] - y
    IN  (IF dx < 0 THEN {<<x - 1, y>>} ELSE IF dx > 0 THEN {<<x + 1, y>>} ELSE {})
        \cup
        (IF dy < 0 THEN {<<x, y - 1>>} ELSE IF dy > 0 THEN {<<x, y + 1>>} ELSE {})

\* mutant of ValidMoves: the obstacle test is dropped
ValidMovesIntoObstacles(o) ==
    {m \in PossibleMoves(o) :
        0 <= m[1] /\ m[1] < width /\ 0 <= m[2] /\ m[2] < height}

\* lines 74-82: in bounds and without obstacle
ValidMoves(o) ==
    {m \in PossibleMoves(o) :
        /\ 0 <= m[1] /\ m[1] < width /\ 0 <= m[2] /\ m[2] < height
        /\ ~HasObstacle(grid, m)}

\* mutant of Arrived: completion one cell early
ArrivedNear(o, new_pos) == Manhattan(new_pos, dropoff_cell[o]) <= 1

\* line 100
Arrived(o, new_pos) == new_pos = dropoff_cell[o]

\* mutant of CarriedPos: only the object's position is updated
CarriedPosObjectOnly(o, latched_agents, new_pos) == [pos EXCEPT ![o] = new_pos]

\* lines 91-97: move_agent stores new_pos in the object and in every latched
\* agent
CarriedPos(o, latched_agents, new_pos) ==
    [a \in Agents |-> IF a = o \/ a \in Range(latched_agents) THEN new_pos ELSE pos[a]]

HeavyObjectStep(o) ==
    /\ running /\ ~fault
    /\ kind[o] = "HeavyObject"
    /\ Schedulable(o)
    /\ Activate(o)
    /\ UNCHANGED <<config, step_count, running, pheromone, kind, fault,
                   required_carriers, discovered, dropoff_cell, last_deposit>>
    /\ IF completed[o]
       THEN /\ Record(o, "done", o)
            /\ UNCHANGED <<grid, pos, current_carriers, completed, discovery_time,
                           completion_time, max_carriers_used, latching,
                           carrying_object_id>>
       ELSE
         LET latched_agents == LatchedAgents(o)
             n == Len(latched_agents)
             mcu == IF n > max_carriers_used[o] THEN n ELSE max_carriers_used[o]
             valid_moves == ValidMoves(o)
         IN
         /\ discovery_time' = [discovery_time EXCEPT ![o] = StampDiscovery(o)]
         /\ IF ~EnoughCarriers(o, n) \/ valid_moves = {}
            THEN /\ max_carriers_used' = [max_carriers_used EXCEPT ![o] = mcu]
                 /\ Record(o, IF ~EnoughCarriers(o, n) THEN "wait" ELSE "blocked", o)
                 /\ UNCHANGED <<grid, pos, current_carriers, completed,
                                completion_time, latching, carrying_object_id>>
            ELSE \E new_pos \in valid_moves :
                 /\ grid' = MoveAll(MoveAgent(grid, pos, o, new_pos), pos,
                                    latched_agents, new_pos)
                 /\ pos' = CarriedPos(o, latched_agents, new_pos)
                 /\ IF Arrived(o, new_pos)
                    THEN /\ Record(o, "arrive", o)
                         /\ completed' = [completed EXCEPT ![o] = TRUE]
                         /\ completion_time' = [completion_time EXCEPT ![o] = step_count]
                         /\ max_carriers_used' =
                              [max_carriers_used EXCEPT ![o] = IF mcu > n THEN mcu ELSE n]
                         /\ latching' = [a \in TransportAgents |->
                              IF a \in Range(latched_agents) THEN FALSE ELSE latching[a]]
                         /\ carrying_object_id' = [a \in TransportAgents |->
                              IF a \in Range(latched_agents) THEN None
                              ELSE carrying_object_id[a]]
                         /\ current_carriers' = [current_carriers EXCEPT ![o] = {}]
                    ELSE /\ Record(o, "move", o)
                         /\ max_carriers_used' = [max_carriers_used EXCEPT ![o] = mcu]
                         /\ UNCHANGED <<current_carriers, completed, completion_time,
                                        latching, carrying_object_id>>

----------------------------------------------------------------------------
(* TransportAgent.step *)

\* lines 132-136: the uncompleted heavy objects of the agent's cell
HeavyObjs(t) ==
    LET IsOpen(a) == kind[a] = "HeavyObject" /\ ~completed[a]
    IN  SelectSeq(CellContents(grid, pos[t]), IsOpen)

\* mutant of CanLatch: the gate admits one carrier too many
CanLatchOneMore(o) == Cardinality(current_carriers[o]) <= required_carriers[o]

\* line 145: the gate for a new carrier
CanLatch(o) == Cardinality(current_carriers[o]) < required_carriers[o]

\* mutant of JoinCarriers: the transporter's identity is not recorded
JoinCarriersForgotten(o, t) == current_carriers[o]

\* line 148: heavy.current_carriers.add(self.unique_id)
JoinCarriers(o, t) == current_carriers[o] \cup {t}

\* mutant of LeavePheromone: the deposit is taken off the cell
LeavePheromoneSubtract(t) == [pheromone EXCEPT ![pos[t]] = @ - pheromone_deposit]

\* leave_pheromone, the field after the deposit
LeavePheromone(t) == [pheromone EXCEPT ![pos[t]] = @ + pheromone_deposit]

\* mutant of FreeNeighbors: the obstacle test is skipped
FreeNeighborsUnfiltered(t) == Neighborhood(pos[t])

\* lines 163-174: the Moore neighbours without obstacle
FreeNeighbors(t) == {n \in Neighborhood(pos[t]) : ~HasObstacle(grid, n)}

\* lines 167-181: the running maximum over the cells kept, started at -1.0
HighestPher(free, ph) ==
    LET vals == {ph[n] : n \in free} \cup {-Unit}
    IN  MaxOf(vals)

\* mutant of BestCells: any marked cell will do, not only a maximal one
BestCellsAnyMarked(free, ph, highest) == {n \in free : ph[n] > 0}

\* lines 177-181: the cells tied at the maximum
BestCells(free, ph, highest) == {n \in free : ph[n] = highest}

\* mutant of MoveChoices: a plain random walk, the field is not read
MoveChoicesRandomWalk(t, ph) == FreeNeighbors(t)

\* lines 184-191: the cells random.choice draws from; {} is "no move possible"
MoveChoices(t, ph) ==
    LET free == FreeNeighbors(t)
        highest == HighestPher(free, ph)
        best == BestCells(free, ph, highest)
    IN  IF highest > 0 /\ best # {} THEN best ELSE free

TransportAgentStep(t) ==
    /\ running /\ ~fault
    /\ kind[t] = "TransportAgent"
    /\ Schedulable(t)
    /\ Activate(t)
    /\ UNCHANGED <<config, step_count, running, kind, fault, required_carriers,
                   completed, discovery_time, completion_time, max_carriers_used,
                   dropoff_cell>>
    /\ IF latching[t] /\ carrying_object_id[t] # None
       THEN /\ Record(t, "carried", carrying_object_id[t])
            /\ UNCHANGED <<grid, pheromone, pos, current_carriers, discovered, agtvars>>
       ELSE IF HeavyObjs(t) # <<>>
       THEN LET heavy == Head(HeavyObjs(t)) IN
            /\ discovered' = [discovered EXCEPT ![heavy] = TRUE]
            /\ IF CanLatch(heavy)
               THEN /\ Record(t, "latch", heavy)
                    /\ latching' = [latching EXCEPT ![t] = TRUE]
                    /\ carrying_object_id' = [carrying_object_id EXCEPT ![t] = heavy]
                    /\ current_carriers' =
                         [current_carriers EXCEPT ![heavy] = JoinCarriers(heavy, t)]
               ELSE /\ Record(t, "refused", heavy)
                    /\ UNCHANGED <<latching, carrying_object_id, current_carriers>>
            /\ UNCHANGED <<grid, pheromone, pos, last_deposit>>
       ELSE LET ph == LeavePheromone(t) IN
            /\ pheromone' = ph
            /\ last_deposit' = [last_deposit EXCEPT ![t] = pheromone_deposit]
            /\ UNCHANGED <<current_carriers, discovered, latching, carrying_object_id>>
            /\ LET choices == MoveChoices(t, ph) IN
               IF choices = {}
               THEN /\ Record(t, "stay", None)
                    /\ UNCHANGED <<grid, pos>>
               ELSE \E new_pos \in choices :
                    /\ Record(t, "search", None)
                    /\ grid' = MoveAgent(grid, pos, t, new_pos)
                    /\ pos' = [pos EXCEPT ![t] = new_pos]

----------------------------------------------------------------------------
(* TransportModel.step after schedule.step() *)

\* mutant of BelowEpsilon: only negative values are snapped to 0
BelowEpsilonNegative(v) == v < 0

\* lines 114-116: one cell of the evaporation pass
BelowEpsilon(v) == v <= Unit \div 1000000      \* v < 1e-6: Unit / 10^6 is no integer

Evaporate(v) ==
    LET w == (v * (pheromone_decay.den - pheromone_decay.num)) \div pheromone_decay.den
    IN  IF BelowEpsilon(w) THEN 0 ELSE w

\* count_completed_objects
CountCompletedObjects == Cardinality({o \in HeavyObjects : completed[o]})

\* average_time_to_completion subtracts the two stamps of every completed object
CollectRaises ==
    \E o \in HeavyObjects :
        completed[o] /\ (completion_time[o] = None \/ discovery_time[o] = None)

\* mutant of ShouldStop: the completion test is dropped
ShouldStopMaxOnly(sc) == sc >= max_steps

\* lines 125-128
ShouldStop(sc) == sc >= max_steps \/ CountCompletedObjects = num_objects

\* mutant of NextStepCount: the tick counter advances by two
NextStepCountByTwo == step_count + 2

\* line 122: self.step_count += 1
NextStepCount == step_count + 1

StepFinish ==
    /\ running /\ ~fault
    /\ \A a \in Agents : ~Schedulable(a)
    /\ pheromone' = [c \in Cells |-> Evaporate(pheromone[c])]
    /\ IF CollectRaises
       THEN /\ fault' = TRUE
            /\ UNCHANGED <<step_count, running, activations>>
       ELSE /\ step_count' = NextStepCount
            /\ running' = IF ShouldStop(NextStepCount) THEN FALSE ELSE running
            /\ activations' = [a \in Agents |-> 0]
            /\ UNCHANGED fault
    /\ UNCHANGED <<config, grid, kind, pos, objvars, agtvars, last_op>>

----------------------------------------------------------------------------
(* TransportModel.__init__ *)

\* index of a cell in all_positions / coord_iter order
CellIndex(c, h) == c[1] * h + c[2]

\* int(total_cells * obstacle_fraction), the fraction in percent
NumObstacles(w, h, percent) == (w * h * percent) \div 100

\* the state after construction, from the outcomes of the three random.sample calls
Constructed(w, h, percent, n_steps, decay, deposit, required, obst_pos, obj_pos, agt_pos) ==
    LET no == Len(obst_pos)
        nh == Len(obj_pos)
        na == Len(agt_pos)
        ids == 1 .. (no + nh + na)
        objs == (no + 1) .. (no + nh)
        agts == (no + nh + 1) .. (no + nh + na)
        where == obst_pos \o obj_pos \o agt_pos
        Here(c) == LET At(a) == where[a] = c
                   IN  SelectSeq([i \in ids |-> i], At)
    IN  /\ width = w /\ height = h
        /\ num_agents = na
        /\ num_objects = nh
        /\ obstacle_fraction = percent
        /\ model_required_carriers = required
        /\ pheromone_decay = decay
        /\ pheromone_deposit = deposit
        /\ max_steps = n_steps
        /\ step_count = 0
        /\ running = TRUE
        /\ kind = [a \in ids |-> IF a <= no THEN "Obstacle"
                                  ELSE IF a <= no + nh THEN "HeavyObject"
                                  ELSE "TransportAgent"]
        /\ pos = [a \in ids |-> where[a]]
        /\ grid = [c \in CellsOf(w, h) |-> Here(c)]
        /\ pheromone = [c \in CellsOf(w, h) |-> 0]
        /\ required_carriers = [o \in objs |-> required]
        /\ current_carriers = [o \in objs |-> {}]
        /\ discovered = [o \in objs |-> FALSE]
        /\ completed = [o \in objs |-> FALSE]
        /\ discovery_time = [o \in objs |-> None]
        /\ completion_time = [o \in objs |-> None]
        /\ max_carriers_used = [o \in objs |-> 0]
        /\ dropoff_cell = [o \in objs |-> <<0, 0>>]
        /\ latching = [t \in agts |-> FALSE]
        /\ carrying_object_id = [t \in agts |-> None]
        /\ last_deposit = [t \in agts |-> 0]
        /\ activations = [a \in ids |-> 0]
        /\ last_op = [a \in ids |-> [op |-> "new", obj |-> None]]
        /\ fault = FALSE

\* random.sample(cells, n): n distinct cells
Samples(cells, n) ==
    {s \in [1 .. n -> cells] : \A i, j \in 1 .. n : i # j => s[i] # s[j]}

\* the obstacle samples of the bounded runs: those drawn in all_positions order
OrderedSamples(cells, n, h) ==
    {s \in Samples(cells, n) :
        \A i, j \in 1 .. n : i < j => CellIndex(s[i], h) < CellIndex(s[j], h)}

NoDecay == [num |-> 0, den |-> 1]
HalfDecay == [num |-> 1, den |-> 2]

\* the grids of the bounded runs: <<width, height, obstacle percent, decay>>
Grids ==
    {<<2, 2, 0, NoDecay>>, <<2, 2, 25, HalfDecay>>, <<3, 1, 0, NoDecay>>,
     <<3, 1, 34, HalfDecay>>, <<3, 2, 50, HalfDecay>>}

Init ==
    \E g \in Grids, nh \in 1 .. MaxObjects, na \in 1 .. MaxAgents,
       required \in 1 .. MaxRequired :
    LET w == g[1]
        h == g[2]
        all_positions == CellsOf(w, h)
    IN
    \E obstacle_positions \in
            OrderedSamples(all_positions, NumObstacles(w, h, g[3]), h) :
    \E object_positions \in Samples(all_positions \ Range(obstacle_positions), nh) :
    \E agent_positions \in
            Samples((all_positions \ Range(obstacle_positions))
                        \ Range(object_positions), na) :
        Constructed(w, h, g[3], MaxSteps, g[4], Unit, required, obstacle_positions,
                    object_positions, agent_positions)

Next ==
    \/ \E a \in Agents : ObstacleStep(a)
    \/ \E o \in Agents : HeavyObjectStep(o)
    \/ \E t \in Agents : TransportAgentStep(t)
    \/ StepFinish

Spec == Init /\ [][Next]_vars

----------------------------------------------------------------------------
(* Scenario A: a 5x5 grid without obstacles, one heavy object at (4,4) that
   needs two carriers, dropoff cell (0,0), two transporters next to the
   object, on (3,4) and (4,3), no decay, deposit 1.0, max_steps = 50 *)

InitA ==
    Constructed(5, 5, 0, 50, NoDecay, Unit, 2, <<>>, <<(<<4, 4>>)>>,
                <<(<<3, 4>>), (<<4, 3>>)>>)

\* no obstacle is registered in Scenario A
NextA ==
    \/ \E o \in Agents : HeavyObjectStep(o)
    \/ \E t \in Agents : TransportAgentStep(t)
    \/ StepFinish

SpecA == InitA /\ [][NextA]_vars

----------------------------------------------------------------------------
(* Construction from arbitrary keyword arguments: __init__ stores them as
   they come (lines 24-40) and the only failures are those of random.sample *)

\* random.sample(population, k): ValueError when k is negative or exceeds
\* the population
SampleRaises(cells, n) == n < 0 \/ n > Cardinality(cells)

\* __init__ has raised inside one of the three placements: the attributes of
\* lines 24-47 are assigned, the agents placed before the failure are
\* registered, and the exception has escaped
ConstructionRaised(cfg, obst_pos, obj_pos) ==
    LET no == Len(obst_pos)
        nh == Len(obj_pos)
        ids == 1 .. (no + nh)
        objs == (no + 1) .. (no + nh)
        where == obst_pos \o obj_pos
        Here(c) == LET At(a) == where[a] = c
                   IN  SelectSeq([i \in ids |-> i], At)
    IN  /\ width = cfg.w /\ height = cfg.h
        /\ num_agents = cfg.na
        /\ num_objects = cfg.nh
        /\ obstacle_fraction = cfg.percent
        /\ model_required_carriers = cfg.required
        /\ pheromone_decay = cfg.decay
        /\ pheromone_deposit = cfg.deposit
        /\ max_steps = cfg.steps
        /\ step_count = 0
        /\ running = TRUE
        /\ kind = [a \in ids |-> IF a <= no THEN "Obstacle" ELSE "HeavyObject"]
        /\ pos = [a \in ids |-> where[a]]
        /\ grid = [c \in CellsOf(cfg.w, cfg.h) |-> Here(c)]
        /\ pheromone = [c \in CellsOf(cfg.w, cfg.h) |-> 0]
        /\ required_carriers = [o \in objs |-> cfg.required]
        /\ current_carriers = [o \in objs |-> {}]
        /\ discovered = [o \in objs |-> FALSE]
        /\ completed = [o \in objs |-> FALSE]
        /\ discovery_time = [o \in objs |-> None]
        /\ completion_time = [o \in objs |-> None]
        /\ max_carriers_used = [o \in objs |-> 0]
        /\ dropoff_cell = [o \in objs |-> <<0, 0>>]
        /\ latching = <<>>
        /\ carrying_object_id = <<>>
        /\ last_deposit = <<>>
        /\ activations = [a \in ids |-> 0]
        /\ last_op = [a \in ids |-> [op |-> "new", obj |-> None]]
        /\ fault = TRUE

\* TransportModel(**cfg): the three placements in the order of lines 50-52
Construct(cfg) ==
    LET all_positions == CellsOf(cfg.w, cfg.h)
        num_obstacles == NumObstacles(cfg.w, cfg.h, cfg.percent)
    IN
    IF SampleRaises(all_positions, num_obstacles)
    THEN ConstructionRaised(cfg, <<>>, <<>>)
    ELSE \E obstacle_positions \in OrderedSamples(all_positions, num_obstacles, cfg.h) :
         LET empty_cells == all_positions \ Range(obstacle_positions) IN
         IF SampleRaises(empty_cells, cfg.nh)
         THEN ConstructionRaised(cfg, obstacle_positions, <<>>)
         ELSE \E object_positions \in Samples(empty_cells, cfg.nh) :
              LET still_empty == empty_cells \ Range(object_positions) IN
              IF SampleRaises(still_empty, cfg.na)
              THEN ConstructionRaised(cfg, obstacle_positions, object_positions)
              ELSE \E agent_positions \in Samples(still_empty, cfg.na) :
                   Constructed(cfg.w, cfg.h, cfg.percent, cfg.steps, cfg.decay,
                               cfg.deposit, cfg.required, obstacle_positions,
                               object_positions, agent_positions)

\* a configuration inside every stated range
BaseConfig ==
    [w |-> 2, h |-> 2, percent |-> 25, na |-> 1, nh |-> 1, steps |-> 2,
     decay |-> HalfDecay, deposit |-> Unit, required |-> 1]

\* the base configuration, and the base configuration with one keyword
\* argument changed
Configs ==
    {BaseConfig,
     [BaseConfig EXCEPT !.na = 0], [BaseConfig EXCEPT !.na = 4],
     [BaseConfig EXCEPT !.nh = 0], [BaseConfig EXCEPT !.nh = 4],
     [BaseConfig EXCEPT !.steps = 0],
     [BaseConfig EXCEPT !.percent = 100], [BaseConfig EXCEPT !.percent = 125],
     [BaseConfig EXCEPT !.percent = -25],
     [BaseConfig EXCEPT !.decay = [num |-> 1, den |-> 1]],
     [BaseConfig EXCEPT !.decay = [num |-> 3, den |-> 2]],
     [BaseConfig EXCEPT !.decay = [num |-> -1, den |-> 2]],
     [BaseConfig EXCEPT !.deposit = 0], [BaseConfig EXCEPT !.deposit = -Unit],
     [BaseConfig EXCEPT !.required = 0]}

InitAnyConfig == \E cfg \in Configs : Construct(cfg)

SpecAnyConfig == InitAnyConfig /\ [][Next]_vars

----------------------------------------------------------------------------
(* A single deposit: a 2x1 grid without obstacles, one heavy object that
   needs two carriers and one transporter, decay 0.5, deposit 5.0,
   max_steps = 30.  The transporter deposits once, in the first tick, steps
   onto the object's cell, latches, and waits there for the rest of the run *)

InitSingleDeposit ==
    \E object_positions \in Samples(CellsOf(2, 1), 1) :
    \E agent_positions \in Samples(CellsOf(2, 1) \ Range(object_positions), 1) :
        Constructed(2, 1, 0, 30, HalfDecay, 5 * Unit, 2, <<>>, object_positions,
                    agent_positions)

SpecSingleDeposit == InitSingleDeposit /\ [][NextA]_vars

----------------------------------------------------------------------------
(* Properties *)

\* the states between two controller ticks (and the state after construction)
TickBoundary == \A a \in Agents : activations[a] = 0

Occurrences(s, a) == Cardinality({i \in DOMAIN s : s[i] = a})

\* C1: every agent is held by exactly one grid cell, exactly once, and that
\* cell is the agent's stored pos; in every state, so also at the end of
\* every controller tick and after construction.
C1_PositionMatchesGrid ==
    \A a \in Agents :
        /\ pos[a] \in Cells
        /\ \A c \in Cells :
             Occurrences(grid[c], a) = (IF c = pos[a] THEN 1 ELSE 0)

\* C1 witness: a tick has ended after an object was carried to its dropoff
\* cell and after a transporter has moved on its own.
C1_Witness ==
    /\ TickBoundary /\ step_count >= 1
    /\ \E o \in HeavyObjects : completed[o] /\ max_carriers_used[o] >= 1
    /\ \E t \in TransportAgents : last_op[t].op = "search"

\* C2: a completed object is on its dropoff cell; completed never reverts;
\* a completed object never changes position, and its own step changes
\* nothing (but the scheduler's bookkeeping).
C2_CompletedIsFinal ==
    /\ [](\A o \in HeavyObjects : completed[o] => pos[o] = dropoff_cell[o])
    /\ [][\A o \in HeavyObjects :
            completed[o] =>
              /\ completed'[o]
              /\ pos'[o] = pos[o]
              /\ (activations'[o] = activations[o] + 1 =>
                    UNCHANGED <<config, step_count, running, grid, pheromone, kind,
                                pos, objvars, agtvars, fault>>)]_vars

\* C2 witness: a completed object has been stepped again in a later tick.
C2_Witness ==
    \E o \in HeavyObjects :
        completed[o] /\ last_op[o].op = "done" /\ step_count > completion_time[o]

\* the transporters that, in the current tick, were activated on object o's
\* cell and evaluated the latch gate against o
GateEvaluators(o) ==
    {t \in TransportAgents :
        /\ activations[t] = 1
        /\ last_op[t].op \in {"latch", "refused"}
        /\ last_op[t].obj = o}

\* more transporters than required_carriers have evaluated the latch gate of
\* o in this tick, and o's own step has not yet run in it
RaceSetup(o) ==
    /\ ~completed[o]
    /\ activations[o] = 0
    /\ Cardinality(GateEvaluators(o)) > required_carriers[o]

\* C3 as stated: when several transporters are activated on an object's cell
\* in the same tick before the object's own step, more of them join than
\* required_carriers.
C3_OverSubscriptionRace ==
    \A o \in HeavyObjects :
        RaceSetup(o) => Cardinality(current_carriers[o]) > required_carriers[o]

\* C3 amended: no over-subscription.  In every state the carrier count and
\* max_carriers_used of every object are at most required_carriers; the
\* gate of line 145 reads the carrier set the earlier joins of the same tick
\* have already grown.
C3_NoOverSubscription ==
    \A o \in HeavyObjects :
        /\ Cardinality(current_carriers[o]) <= required_carriers[o]
        /\ max_carriers_used[o] <= required_carriers[o]

\* C3 witness: the race is set up and the surplus transporter was refused.
C3_Witness ==
    \E o \in HeavyObjects :
        /\ RaceSetup(o)
        /\ Cardinality(current_carriers[o]) = required_carriers[o]
        /\ \E t \in GateEvaluators(o) : last_op[t].op = "refused"

\* C4: a completed object has max_carriers_used >= required_carriers.
C4_RedundancyNonNegative ==
    \A o \in HeavyObjects :
        completed[o] => max_carriers_used[o] >= required_carriers[o]

\* C4 witness: an object that needs two carriers is completed.
C4_Witness ==
    \E o \in HeavyObjects : completed[o] /\ required_carriers[o] = 2

\* C5: a completed object has both time stamps set, discovery_time <=
\* completion_time, and the data collection never subtracts an unset stamp.
C5_StampsSet ==
    /\ ~fault
    /\ ~CollectRaises
    /\ \A o \in HeavyObjects :
         completed[o] =>
            /\ discovery_time[o] # None
            /\ completion_time[o] # None
            /\ discovery_time[o] <= completion_time[o]

\* C5 witness: the data collection of a tick has run over a completed object
\* that was discovered in an earlier tick than it was completed.
C5_Witness ==
    \E o \in HeavyObjects :
        /\ completed[o]
        /\ step_count > completion_time[o]
        /\ discovery_time[o] < completion_time[o]

\* C6 as stated: Scenario A ends with the object completed, completion_time
\* set and <= 50, and both transporters with latching = FALSE.
C6_ScenarioACompletes ==
    ~running =>
        /\ \A o \in HeavyObjects :
              /\ completed[o]
              /\ completion_time[o] # None
              /\ completion_time[o] <= 50
        /\ \A t \in TransportAgents : ~latching[t]

\* C6 amended: in Scenario A the object is never lifted.  Its cell never
\* holds pheromone, and but for the first transporter step of tick 0 every
\* searching transporter has a marked neighbour to follow, so at most one
\* transporter ever reaches the object: the object stays on (4,4), not
\* completed and without completion_time, with at most one carrier; the run
\* ends only at step_count = max_steps = 50, and a transporter that latched
\* is still latched then.
C6_ScenarioANeverCompletes ==
    /\ \A o \in HeavyObjects :
          /\ ~completed[o]
          /\ completion_time[o] = None
          /\ pos[o] = <<4, 4>>
          /\ Cardinality(current_carriers[o]) <= 1
          /\ \A t \in current_carriers[o] : latching[t] /\ pos[t] = pos[o]
    /\ step_count <= 50
    /\ (~running => step_count = 50)

\* C6 witness: the run of Scenario A has ended after 50 ticks with one
\* transporter latched onto the waiting object and the other still searching.
C6_Witness ==
    /\ ~running
    /\ step_count = 50
    /\ \E o \in HeavyObjects, t \in TransportAgents :
          current_carriers[o] = {t} /\ last_op[o].op = "wait"
    /\ \E t \in TransportAgents : ~latching[t] /\ last_op[t].op = "search"

\* every transporter of the run could latch and the object would still wait
FewerAgentsThanRequired ==
    \A o \in HeavyObjects : Cardinality(TransportAgents) < required_carriers[o]

\* C7: with fewer TransportAgents in the run than required_carriers, no
\* object ever moves or completes, and running turns false only at
\* step_count >= max_steps, never through the completion test.
C7_TooFewAgents ==
    /\ [](FewerAgentsThanRequired =>
            /\ \A o \in HeavyObjects : ~completed[o]
            /\ (~running =>
                  step_count >= max_steps /\ CountCompletedObjects # num_objects))
    /\ [][FewerAgentsThanRequired =>
            \A o \in HeavyObjects : pos'[o] = pos[o]]_vars

\* C7 witness: the run has ended with an object discovered, latched onto by
\* every transporter there is, and still waiting.
C7_Witness ==
    /\ FewerAgentsThanRequired
    /\ ~running
    /\ \E o \in HeavyObjects :
         /\ discovered[o]
         /\ current_carriers[o] = TransportAgents
         /\ last_op[o].op = "wait"

\* C8: between ticks, running is false exactly if step_count >= max_steps or
\* every object is completed; false stays false; the loop of run.py makes at
\* most max_steps ticks.
C8_RunningFlag ==
    /\ [](TickBoundary =>
            (~running <=>
               (step_count >= max_steps \/ CountCompletedObjects = num_objects)))
    /\ [](step_count <= max_steps)
    /\ [][~running => ~running']_vars

\* C8 witness: the run was stopped by completion before max_steps.
C8_Witness ==
    /\ ~running
    /\ step_count < max_steps
    /\ CountCompletedObjects = num_objects

\* C9: a tick is one step of every registered agent, each exactly once, and
\* then one evaporation pass over the whole field.  A transition that leaves
\* step_count alone is the first step of one agent in the tick and changes
\* the field at most by that agent's deposit; the transition that ends the
\* tick finds every agent stepped exactly once, evaporates every cell once
\* and touches no agent.
C9_TickStructure ==
    [][IF step_count' = step_count
       THEN \E a \in Agents :
              /\ activations[a] = 0
              /\ activations' = [activations EXCEPT ![a] = 1]
              /\ \/ pheromone' = pheromone
                 \/ /\ kind[a] = "TransportAgent"
                    /\ pheromone' =
                         [pheromone EXCEPT ![pos[a]] = @ + pheromone_deposit]
       ELSE /\ step_count' = step_count + 1
            /\ \A a \in Agents : activations[a] = 1 /\ activations'[a] = 0
            /\ pheromone' = [c \in Cells |-> Evaporate(pheromone[c])]
            /\ UNCHANGED <<grid, pos, objvars, agtvars>>]_vars

\* C9 witness: a tick has ended in a run with obstacles, objects and
\* transporters, all stepped, and the field holds an evaporated deposit.
C9_Witness ==
    /\ TickBoundary /\ step_count >= 1
    /\ Obstacles # {}
    /\ \A a \in Agents : last_op[a].op # "new"
    /\ \E c \in Cells : 0 < pheromone[c] /\ pheromone[c] < pheromone_deposit

\* every in-bounds Moore neighbour of transporter t holds an obstacle
Enclosed(t) == \A n \in Neighborhood(pos[t]) : HasObstacle(grid, n)

\* no heavy object shares transporter t's cell
OffObject(t) ==
    ~\E i \in DOMAIN grid[pos[t]] : kind[grid[pos[t]][i]] = "HeavyObject"

\* C10: a transporter off every object cell whose in-bounds Moore neighbours
\* all hold obstacles never changes position, and its step runs to its end
\* (deposit made, no move, no exception).
C10_EnclosedStaysPut ==
    [][\A t \in TransportAgents :
         (Enclosed(t) /\ OffObject(t)) =>
            /\ pos'[t] = pos[t]
            /\ ~fault'
            /\ (activations'[t] = activations[t] + 1 =>
                  /\ last_op'[t].op = "stay"
                  /\ last_deposit'[t] = pheromone_deposit
                  /\ grid' = grid)]_vars

\* C10 witness: an enclosed transporter has been stepped in two ticks.
C10_Witness ==
    \E t \in TransportAgents :
        /\ Enclosed(t) /\ OffObject(t)
        /\ Neighborhood(pos[t]) # {}
        /\ last_op[t].op = "stay"
        /\ step_count >= 2

\* a configuration value outside the range the configuration table states
OutOfRange ==
    \/ width <= 0 \/ height <= 0
    \/ num_agents <= 0 \/ num_objects <= 0 \/ max_steps <= 0
    \/ obstacle_fraction < 0 \/ obstacle_fraction >= 100
    \/ pheromone_decay.num < 0 \/ pheromone_decay.num >= pheromone_decay.den
    \/ pheromone_deposit <= 0
    \/ model_required_carriers < 1

\* fewer empty cells than the objects, or than the transporters, to place
NotEnoughCells ==
    LET empty == width * height - NumObstacles(width, height, obstacle_fraction)
    IN  num_objects > empty \/ num_agents > empty - num_objects

\* the constructor raised: no tick has run and none can
ConstructionFailed == fault /\ step_count = 0 /\ TickBoundary

\* C11: a configuration without enough empty cells, or with a value outside
\* its stated range, makes the constructor fail: no such configuration yields
\* a model on which a step can run.
C11_ConstructionValidates == (OutOfRange \/ NotEnoughCells) => ConstructionFailed

\* the part of C11 the constructor does enforce: too few empty cells
TooFewCellsRaises == NotEnoughCells => ConstructionFailed

\* C12: every pheromone cell value is >= 0 in every reachable state, the
\* states inside a tick (after some deposits, before the evaporation) included.
C12_PheromoneNonNegative == \A c \in Cells : pheromone[c] >= 0

\* C12 witness: inside a tick after the first, a transporter has deposited
\* on a cell that still held the evaporated rest of an earlier deposit.
C12_Witness ==
    /\ step_count >= 1 /\ ~TickBoundary
    /\ pheromone_decay = HalfDecay
    /\ \E t \in TransportAgents :
         /\ activations[t] = 1 /\ last_op[t].op = "search"
         /\ \E c \in Cells : pheromone[c] > pheromone_deposit

\* a transition in which a transporter's step deposits
Deposits ==
    \E t \in TransportAgents :
        /\ activations'[t] = activations[t] + 1
        /\ last_op'[t].op \in {"search", "stay"}

\* a transition that ends a controller tick
TickEnds == step_count' = step_count + 1

\* C13: with decay 0.5, the evaporation pass at the end of a tick maps every
\* cell value v to v/2, and to exactly 0 when v/2 is below 1e-6 (v at most 16
\* units); the single deposit of 5.0 reads 2.5 after the first tick; a
\* transition without deposit never raises a cell; a zero cell stays zero;
\* and the field is exactly 0 from the 23rd evaporation on, so when the run
\* has ended.
C13_Evaporation ==
    /\ [][TickEnds =>
            \A c \in Cells :
                IF pheromone[c] <= 16
                THEN pheromone'[c] = 0
                ELSE 2 * pheromone'[c] = pheromone[c]]_vars
    /\ [](step_count = 1 =>
            \E c \in Cells :
                /\ 2 * pheromone[c] = 5 * Unit
                /\ \A d \in Cells \ {c} : pheromone[d] = 0)
    /\ [][~Deposits => \A c \in Cells : pheromone'[c] <= pheromone[c]]_vars
    /\ [][~Deposits => \A c \in Cells : pheromone[c] = 0 => pheromone'[c] = 0]_vars
    /\ [](step_count >= 23 => \A c \in Cells : pheromone[c] = 0)
    /\ [](~running => \A c \in Cells : pheromone[c] = 0)

\* C13 witness: the run has ended at max_steps, the transporter made its one
\* deposit of 5.0 and latched, and the field is all zero.
C13_Witness ==
    /\ ~running /\ step_count = max_steps
    /\ \A c \in Cells : pheromone[c] = 0
    /\ \E t \in TransportAgents :
         last_deposit[t] = 5 * Unit /\ latching[t] /\ pos[t] # <<0, 0>>

\* a transition that is one agent's step
AgentStepTaken == \E a \in Agents : activations'[a] = activations[a] + 1

\* a transition that completes a call of the controller tick
TickCompletes ==
    /\ \A a \in Agents : activations[a] = 1
    /\ \A a \in Agents : activations'[a] = 0

\* C14: step_count is 0 after construction, grows by exactly 1 when a call of
\* the controller tick completes, is left alone by every agent step, and
\* never decreases or resets.
C14_StepCounter ==
    /\ step_count = 0
    /\ [][/\ AgentStepTaken => step_count' = step_count
          /\ TickCompletes => step_count' = step_count + 1
          /\ step_count' >= step_count
          /\ step_count' # step_count => TickCompletes]_vars

\* C14 witness: the run has ended at max_steps after ticks in which
\* transporters moved and an object was delivered.
C14_Witness ==
    /\ ~running /\ step_count = max_steps /\ step_count >= 3
    /\ \E t \in TransportAgents : last_op[t].op = "search"
    /\ \E o \in HeavyObjects : completed[o]

\* the carriers of o that stand on o's cell
CarriersPresent(o) == {t \in TransportAgents : t \in current_carriers[o] /\ pos[t] = pos[o]}

\* C16: whenever a HeavyObject's position changes, (i) at least
\* required_carriers of its carriers stood on its cell, and (ii) the new cell
\* differs from the old one by exactly 1 in exactly one coordinate, is inside
\* the grid, held no Obstacle, and is exactly 1 closer in Manhattan distance
\* to dropoff_cell.
C16_ObjectMoves ==
    [][\A o \in HeavyObjects :
         pos'[o] # pos[o] =>
            /\ Cardinality(CarriersPresent(o)) >= required_carriers[o]
            /\ \/ (Abs(pos'[o][1] - pos[o][1]) = 1 /\ pos'[o][2] = pos[o][2])
               \/ (Abs(pos'[o][2] - pos[o][2]) = 1 /\ pos'[o][1] = pos[o][1])
            /\ pos'[o] \in Cells
            /\ \A a \in Obstacles : pos[a] # pos'[o]
            /\ Manhattan(pos'[o], dropoff_cell[o])
                 = Manhattan(pos[o], dropoff_cell[o]) - 1]_vars

\* C16 witness: an object has moved with its carrier although an obstacle
\* stands on the other cell that would have brought it closer.
C16_Witness ==
    \E o \in HeavyObjects :
        /\ last_op[o].op \in {"move", "arrive"} /\ activations[o] = 1
        /\ max_carriers_used[o] >= required_carriers[o]
        /\ \E a \in Obstacles :
             /\ Abs(pos[a][1] - pos[o][1]) = 1 /\ Abs(pos[a][2] - pos[o][2]) = 1
             /\ Manhattan(pos[a], dropoff_cell[o]) = Manhattan(pos[o], dropoff_cell[o])

\* o's own step, taken while o is uncompleted and at least required_carriers
\* of its carriers stand on its cell, in a grid without obstacles
LiftedStep(o) ==
    /\ Obstacles = {}
    /\ activations'[o] = activations[o] + 1
    /\ ~completed[o]
    /\ Cardinality(CarriersPresent(o)) >= required_carriers[o]

\* C17: in a grid without obstacles, every step an uncompleted HeavyObject
\* takes with at least required_carriers carriers on its cell brings it one
\* cell closer to dropoff_cell, and it is completed as soon as it has no
\* distance left to cover, so after at most as many of its steps as its
\* distance; an object placed on dropoff_cell itself is completed by its
\* first such step.
C17_ProgressAfterLiftOff ==
    [][\A o \in HeavyObjects :
         LiftedStep(o) =>
            /\ pos[o] # dropoff_cell[o] =>
                 Manhattan(pos'[o], dropoff_cell[o])
                   = Manhattan(pos[o], dropoff_cell[o]) - 1
            /\ pos'[o] = dropoff_cell[o] => completed'[o]]_vars

\* the part of C17 the code meets: objects placed off the dropoff cell
ProgressOffDropoff ==
    [][\A o \in HeavyObjects :
         LiftedStep(o) /\ pos[o] # dropoff_cell[o] =>
            /\ Manhattan(pos'[o], dropoff_cell[o])
                 = Manhattan(pos[o], dropoff_cell[o]) - 1
            /\ pos'[o] = dropoff_cell[o] => completed'[o]]_vars

\* C18: in every state, transporter t has latching = TRUE and
\* carrying_object_id = o exactly when t is in o's current_carriers; so a
\* transporter is a carrier of at most one object, and a completed object has
\* no carrier and no transporter latched to it.
C18_LatchingSymmetric ==
    /\ \A t \in TransportAgents, o \in HeavyObjects :
         (latching[t] /\ carrying_object_id[t] = o) <=> t \in current_carriers[o]
    /\ \A t \in TransportAgents :
         Cardinality({o \in HeavyObjects : t \in current_carriers[o]}) <= 1
    /\ \A o \in HeavyObjects :
         completed[o] =>
            /\ current_carriers[o] = {}
            /\ \A t \in TransportAgents :
                 ~(latching[t] /\ carrying_object_id[t] = o)

\* C18 witness: one object has been delivered and its carrier released while
\* another object holds a latched carrier.
C18_Witness ==
    \E o1, o2 \in HeavyObjects, t1, t2 \in TransportAgents :
        /\ completed[o1] /\ max_carriers_used[o1] >= 1
        /\ last_op[t1].obj = o1 /\ ~latching[t1] /\ carrying_object_id[t1] = None
        /\ ~completed[o2] /\ t2 \in current_carriers[o2]
        /\ latching[t2] /\ carrying_object_id[t2] = o2

\* C19: in every state, every transporter in a HeavyObject's
\* current_carriers stands on that object's cell; so the live-carrier count
\* recomputed in HeavyObject.step equals the size of current_carriers, and
\* the latch gate on len(current_carriers) is the gate on the live carriers.
C19_CarriersOnCell ==
    \A o \in HeavyObjects :
        /\ \A t \in current_carriers[o] : t \in TransportAgents /\ pos[t] = pos[o]
        /\ Len(LatchedAgents(o)) = Cardinality(current_carriers[o])
        /\ CanLatch(o) <=> Len(LatchedAgents(o)) < required_carriers[o]

\* C19 witness: an object has been moved, short of its dropoff cell, with
\* its carrier, and the carrier has since taken its own (idle) step.
C19_Witness ==
    \E o \in HeavyObjects, t \in TransportAgents :
        /\ last_op[o].op = "move" /\ ~completed[o]
        /\ t \in current_carriers[o]
        /\ last_op[t] = [op |-> "carried", obj |-> o] /\ activations[t] = 1
        /\ activations[o] = 1

\* t is searching: not latched, and no uncompleted HeavyObject on its cell
Searching(t) ==
    /\ ~(latching[t] /\ carrying_object_id[t] # None)
    /\ \A o \in HeavyObjects : ~(pos[o] = pos[t] /\ ~completed[o])

\* the in-bounds Moore neighbours of t's cell that hold no Obstacle
OpenNeighbours(t) ==
    {c \in Cells :
        /\ c # pos[t]
        /\ Abs(c[1] - pos[t][1]) <= 1 /\ Abs(c[2] - pos[t][2]) <= 1
        /\ \A a \in Obstacles : pos[a] # c}

\* C20: in its step a searching transporter deposits pheromone_deposit on
\* its cell and moves to an in-bounds Moore neighbour without Obstacle, one
\* holding the maximum pheromone among them when that maximum is > 0, any of
\* them otherwise; a transporter that is latched, or stands on an uncompleted
\* HeavyObject's cell, neither moves nor deposits in its step.
C20_SearchStep ==
    [][\A t \in TransportAgents :
         activations'[t] = activations[t] + 1 =>
            IF Searching(t)
            THEN /\ pheromone' =
                      [pheromone EXCEPT ![pos[t]] = @ + pheromone_deposit]
                 /\ last_deposit'[t] = pheromone_deposit
                 /\ pos'[t] \in OpenNeighbours(t)
                 /\ \A c \in OpenNeighbours(t) : pheromone[c] > 0 =>
                       /\ pheromone[pos'[t]] > 0
                       /\ pheromone[pos'[t]] >= pheromone[c]
            ELSE /\ pos'[t] = pos[t]
                 /\ pheromone' = pheromone
                 /\ last_deposit'[t] = last_deposit[t]]_vars

\* C20 as the code has it: the searching transporter deposits and then moves
\* as C20 says when some in-bounds Moore neighbour holds no Obstacle; when
\* none does, it deposits and stays on its cell.
C20_SearchStepOrStay ==
    [][\A t \in TransportAgents :
         activations'[t] = activations[t] + 1 =>
            IF Searching(t)
            THEN /\ pheromone' =
                      [pheromone EXCEPT ![pos[t]] = @ + pheromone_deposit]
                 /\ last_deposit'[t] = pheromone_deposit
                 /\ IF OpenNeighbours(t) = {}
                    THEN pos'[t] = pos[t]
                    ELSE /\ pos'[t] \in OpenNeighbours(t)
                         /\ \A c \in OpenNeighbours(t) : pheromone[c] > 0 =>
                               /\ pheromone[pos'[t]] > 0
                               /\ pheromone[pos'[t]] >= pheromone[c]
            ELSE /\ pos'[t] = pos[t]
                 /\ pheromone' = pheromone
                 /\ last_deposit'[t] = last_deposit[t]]_vars

\* C20 witness: a transporter has just moved onto a marked cell while a
\* cell with a smaller positive value lies next to the cell it left (the
\* cell it left is the one neighbour of its new cell that holds its deposit).
C20_Witness ==
    \E t \in TransportAgents :
        /\ last_op[t].op = "search" /\ activations[t] = 1 /\ step_count >= 1
        /\ pheromone[pos[t]] > 0
        /\ \E old, c \in Cells :
             /\ Manhattan(old, pos[t]) <= 2 /\ old # pos[t]
             /\ pheromone[old] >= pheromone_deposit
             /\ c # old /\ c # pos[t]
             /\ Abs(c[1] - old[1]) <= 1 /\ Abs(c[2] - old[2]) <= 1
             /\ pheromone[c] > 0 /\ pheromone[c] < pheromone[pos[t]]

====
